---- MODULE Spec2Model ----
(***************************************************************************)
(* blogimport: the entry pipeline of main() (src/unnamed/part_002).         *)
(*                                                                         *)
(* The run is modelled as a state machine whose steps are the iterations   *)
(* of main's three loops over exp.Entries:                                 *)
(*   pass 1 (lines 290-325)  builds postmap and strips IDs,                *)
(*   pass 2 (lines 328-354)  links comments to parents, writes comments,   *)
(*   pass 3 (lines 358-416)  flattens, localizes, converts, writes posts.  *)
(*                                                                         *)
(* Strings are abstracted by what the code reads from them:                *)
(*   - an ID string is [marker, tail]: whether it contains "post-", and    *)
(*     the text after the last "post-" (the whole text without marker) as  *)
(*     the number it spells, or NaN when it spells none;                   *)
(*   - a link target or in-reply-to source is the number its base name     *)
(*     spells, or NaN;                                                     *)
(*   - post content is a sequence of tokens, each carrying one reference   *)
(*     string; reference strings are atomic (none contains another).       *)
(***************************************************************************)
EXTENDS Integers, Sequences, FiniteSets, TLC

VARIABLES
    Entries,    \* exp.Entries: the parsed records, mutated in place
    flags,      \* the command-line flags main reads
    env,        \* kinds of environment failure that can occur in this run
    postmap,    \* numeric ID -> index into Entries
    pc,         \* position of main: start, map, link, write, or an exit
    k,          \* loop index of the running pass (1-based; Go's k is k-1)
    count,      \* published posts written
    drafts,     \* drafts written
    files,      \* output files written so far, in order
    static,     \* image files saved in the static directory
    log         \* lines given to the logger (and the panic message), in order

vars == <<Entries, flags, env, postmap, pc, k, count, drafts, files, static, log>>

----------------------------------------------------------------------------
(* Bounds of the model                                                     *)

MaxEntries == 3     \* records in the input of the linking families
MaxTree == 4        \* records in the input of the comment-tree family
MaxTime == 2        \* distinct published timestamps
MaxContent == 3     \* tokens in a post's content
MaxRand == 2        \* distinct values rand.Int() can return

NaN == 0 - 1        \* a text that spells no unsigned number

----------------------------------------------------------------------------
(* Tags and the three classifications main applies                         *)

KindScheme == "http://schemas.google.com/g/2005#kind"
BlogScheme == "http://www.blogger.com/atom/ns#"
KindPost == "http://schemas.google.com/blogger/2008/kind#post"
KindComment == "http://schemas.google.com/blogger/2008/kind#comment"
KindTemplate == "http://schemas.google.com/blogger/2008/kind#template"

Tag(name, scheme) == [Name |-> name, Scheme |-> scheme]

TP == Tag(KindPost, KindScheme)
TC == Tag(KindComment, KindScheme)
TT == Tag(KindTemplate, KindScheme)
TL == Tag("label", BlogScheme)

\* Index of the first tag of the kind scheme, 0 when there is none
\* (the tag at which pass 1's loop breaks).
RECURSIVE FirstKindFrom(_, _)
FirstKindFrom(tags, i) ==
    IF i > Len(tags) THEN 0
    ELSE IF tags[i].Scheme = KindScheme THEN i
    ELSE FirstKindFrom(tags, i + 1)

\* Pass 1: isTemplate. Only the first kind-scheme tag is looked at; comment
\* falls through to post's empty case, any other name sets isTemplate.
IsTemplate(tags) ==
    LET i == FirstKindFrom(tags, 1)
    IN  /\ i # 0
        /\ tags[i].Name # KindComment
        /\ tags[i].Name # KindPost

\* Pass 2: some tag is the comment kind tag (any position).
HasCommentTag(tags) ==
    \E i \in 1..Len(tags) : tags[i].Name = KindComment /\ tags[i].Scheme = KindScheme

\* Pass 3: isPost, some tag is the post kind tag (any position).
IsPost(tags) ==
    \E i \in 1..Len(tags) : tags[i].Name = KindPost /\ tags[i].Scheme = KindScheme

----------------------------------------------------------------------------
(* IDs and numbers                                                          *)

IDString(marker, tail) == [marker |-> marker, tail |-> tail]

\* strings.LastIndex(ID, "post-") >= 0
HasMarker(id) == id.marker

\* ID[index+5:]: the text after the last "post-"
AfterMarker(id) == IDString(FALSE, id.tail)

\* strconv.ParseUint(s, 10, 64) succeeds: the whole text spells a number
ParseOk(id) == ~id.marker /\ id.tail # NaN

\* the value ParseUint returns (0 with an error)
ParseVal(id) == IF ParseOk(id) THEN id.tail ELSE 0

\* strconv.ParseUint(filepath.Base(s), 10, 64) with the error dropped
BaseUint(n) == IF n = NaN THEN 0 ELSE n

----------------------------------------------------------------------------
(* Records of the export                                                    *)

\* One <link>: its rel attribute, and of its href the number the base name
\* spells (read by "related") and the base name without extension (read by
\* "replies").
Link(rel, num, slug) == [Rel |-> rel, Num |-> num, Slug |-> slug]

\* strings.ToLower on the rel values of the inputs
ToLower(s) ==
    CASE s = "Related" -> "related"
      [] s = "Replies" -> "replies"
      [] OTHER -> s

\* An Entry as xml.Unmarshal leaves it: Reply 0, Children nil, Slug "".
NewEntry(id, title, published, draft, content, tags, source, links) ==
    [ ID |-> id, Title |-> title, Published |-> published, Draft |-> draft,
      Content |-> content,
      Tags |-> tags, Source |-> source, Links |-> links,
      Reply |-> 0, Children |-> <<>>, Slug |-> "" ]

\* Pass 1, the loop over Links: the last "related" link sets Reply, the last
\* "replies" link sets Slug, "alternate" and other relations change nothing.
RECURSIVE ApplyLinks(_, _, _)
ApplyLinks(e, links, i) ==
    IF i > Len(links) THEN e
    ELSE LET rel == ToLower(links[i].Rel)
             e1 == CASE rel = "related" -> [e EXCEPT !.Reply = BaseUint(links[i].Num)]
                     [] rel = "replies" -> [e EXCEPT !.Slug = links[i].Slug]
                     [] OTHER -> e
         IN  ApplyLinks(e1, links, i + 1)

\* postmap[id] = k
MapPut(pm, id, i) == [x \in (DOMAIN pm) \cup {id} |-> IF x = id THEN i ELSE pm[x]]

EmptyMap == [x \in {} |-> 0]

LogLine(ev, at) == [ev |-> ev, at |-> at]

\* Pass 1, one iteration on entry e at index i: the entry, the map and the
\* log lines it leaves.
MapEntry(e, pm, i) ==
    IF IsTemplate(e.Tags)
    THEN [entry |-> e, postmap |-> pm, log |-> <<>>]
    ELSE LET e1 == IF HasMarker(e.ID) THEN [e EXCEPT !.ID = AfterMarker(e.ID)] ELSE e
             put == HasMarker(e.ID) /\ ParseOk(e1.ID)
             bad == HasMarker(e.ID) /\ ~ParseOk(e1.ID)
         IN  [ entry |-> ApplyLinks(e1, e1.Links, 1),
               postmap |-> IF put THEN MapPut(pm, ParseVal(e1.ID), i) ELSE pm,
               log |-> IF bad THEN <<LogLine("cantparse", i)>> ELSE <<>> ]

\* Pass 2: the parent number a comment entry resolves (0: deleted parent).
ParentOf(e) == IF e.Reply # 0 THEN e.Reply ELSE BaseUint(e.Source)

----------------------------------------------------------------------------
(* sort.Sort and treeSort                                                   *)

\* EntrySet.Less on two entry indices
Less(E, a, b) == E[a].Published < E[b].Published

Bijections(n) == {p \in [1..n -> 1..n] : \A i, j \in 1..n : p[i] = p[j] => i = j}

Rearrangements(s) == {[i \in 1..Len(s) |-> s[p[i]]] : p \in Bijections(Len(s))}

\* sort.Sort(EntrySet(s)): the slice rearranged into ascending order by Less.
\* The library documents that the sort is not guaranteed to be stable, so
\* every ordered rearrangement is an outcome.
SortSort(E, s) ==
    {t \in Rearrangements(s) : \A i, j \in 1..Len(t) : i < j => ~Less(E, t[j], t[i])}

RangeOf(s) == {s[i] : i \in 1..Len(s)}

\* Entries reachable from i through Children in one to n steps.
RECURSIVE ReachIn(_, _, _)
ReachIn(E, S, n) ==
    IF n = 0 THEN {}
    ELSE LET next == UNION {RangeOf(E[v].Children) : v \in S}
         IN  next \cup ReachIn(E, next, n - 1)

Descendants(E, i) == ReachIn(E, {i}, Len(E))

\* treeSort(i) never returns: the recursion from i enters a cycle of Children.
Diverges(E, i) == \E v \in {i} \cup Descendants(E, i) : v \in Descendants(E, v)

\* The Children lists as the sort calls of treeSort(i) can leave them: every
\* entry treeSort visits has its list sorted in place, the others are untouched.
RECURSIVE SortedFrom(_, _, _)
SortedFrom(E, V, i) ==
    IF i > Len(E) THEN {<<>>}
    ELSE {<<c>> \o rest :
            c \in (IF i \in V THEN SortSort(E, E[i].Children) ELSE {E[i].Children}),
            rest \in SortedFrom(E, V, i + 1)}

SortedChildren(E, i) == SortedFrom(E, {i} \cup Descendants(E, i), 1)

\* treeSort(i) over Children lists ch already sorted: each child, then the
\* child's own flattened list.
RECURSIVE treeSort(_, _)

\* A flattening by levels: all the children, then their flattened lists.
RECURSIVE subtreesFrom(_, _, _)
subtreesFrom(ch, s, j) ==
    IF j > Len(s) THEN <<>>
    ELSE treeSort(ch, s[j]) \o subtreesFrom(ch, s, j + 1)

treeSortByLevel(ch, i) == ch[i] \o subtreesFrom(ch, ch[i], 1)

RECURSIVE treeSortFrom(_, _, _)
treeSortFrom(ch, s, j) ==
    IF j > Len(s) THEN <<>>
    ELSE <<s[j]>> \o treeSort(ch, s[j]) \o treeSortFrom(ch, s, j + 1)

treeSort(ch, i) == treeSortFrom(ch, ch[i], 1)

\* Pass 3: entry.Comments, the IDs of the flattened children that parse.
RECURSIVE CommentIDs(_, _, _)
CommentIDs(E, list, j) ==
    IF j > Len(list) THEN <<>>
    ELSE (IF ParseOk(E[list[j]].ID) THEN <<ParseVal(E[list[j]].ID)>> ELSE <<>>)
         \o CommentIDs(E, list, j + 1)

----------------------------------------------------------------------------
(* Content, imgToLocal and downloadImage                                    *)

FileName(rnd, base) == [rnd |-> rnd, base |-> base]

\* A reference string: whether it starts with "http", where it points, and
\* its base name (rnd: the numeric prefix downloadImage may prepend, 0: none).
Ref(http, at, name) == [http |-> http, at |-> at, name |-> name]

Url(host, base) == Ref(TRUE, host, FileName(0, base))

\* One piece of content: <img src="ref">, <a href="ref">, or text.
Token(tag, ref) == [tag |-> tag, ref |-> ref, fmt |-> "html"]

Img(ref) == Token("img", ref)
Href(ref) == Token("a", ref)
Text(s) == Token("text", Ref(FALSE, "text", FileName(0, s)))

\* re.FindAllStringSubmatch(content, -1): the src of every img tag, in order.
RECURSIVE Matches(_, _)
Matches(content, j) ==
    IF j > Len(content) THEN <<>>
    ELSE (IF content[j].tag = "img" THEN <<content[j].ref>> ELSE <<>>)
         \o Matches(content, j + 1)

\* Position of the first occurrence of the string src in content, 0 if none.
RECURSIVE IndexOf(_, _, _)
IndexOf(content, src, j) ==
    IF j > Len(content) THEN 0
    ELSE IF content[j].ref = src THEN j
    ELSE IndexOf(content, src, j + 1)

\* strings.Replace(content, src, img, 1): the first occurrence only.
ReplaceOnce(content, src, img) ==
    LET j == IndexOf(content, src, 1)
    IN  IF j = 0 THEN content ELSE [content EXCEPT ![j].ref = img]

\* strings.Replace(content, "&nbsp;", " ", -1)
ReplaceNbsp(content) ==
    [j \in 1..Len(content) |->
        IF content[j].ref.name.base = "&nbsp;"
        THEN [content[j] EXCEPT !.ref.name.base = " "]
        ELSE content[j]]

\* convert.ConvertString(content) when it succeeds
ConvertString(content) == [j \in 1..Len(content) |-> [content[j] EXCEPT !.fmt = "md"]]

\* What the environment can answer to a call of the given kind.
Answers(ev, kind) == IF kind \in ev THEN {TRUE, FALSE} ELSE {TRUE}

Saved(name, from) == [name |-> name, from |-> from]

Exists(dir, name) == \E f \in dir : f.name = name

\* os.Create(path) and io.Copy: the file holds the bytes fetched from uri,
\* replacing a file of that name.
Create(dir, name, uri) == {f \in dir : f.name # name} \cup {Saved(name, uri)}

\* downloadImage(uri, dir): the outcomes, each [ok, img, static]. A failed
\* request changes nothing; otherwise the file is named after the URL's base
\* name, with a rand.Int() prefix when that name is taken.
downloadImage(uri, dir, ev) ==
    {[ok |-> FALSE, img |-> uri, static |-> dir] : x \in Answers(ev, "download") \ {TRUE}}
    \cup
    {[ok |-> TRUE, img |-> Ref(FALSE, "/img", name), static |-> Create(dir, name, uri)] :
        name \in (IF Exists(dir, uri.name)
                  THEN {FileName(r, uri.name.base) : r \in 1..MaxRand}
                  ELSE {uri.name})}

\* imgToLocal's loop from match j on, over acc = [content, static, log,
\* fetched]: the outcomes. fetched records the references whose download
\* succeeded in this call (the code keeps no such list).
RECURSIVE imgLoop(_, _, _, _, _)
imgLoop(matches, j, acc, ev, at) ==
    IF j > Len(matches) THEN {acc}
    ELSE LET src == matches[j]
         IN  IF ~src.http
             THEN imgLoop(matches, j + 1, acc, ev, at)
             ELSE UNION {
                    IF d.ok
                    THEN imgLoop(matches, j + 1,
                                 [ content |-> ReplaceOnce(acc.content, src, d.img),
                                   static |-> d.static, log |-> acc.log,
                                   fetched |-> acc.fetched \cup {src} ], ev, at)
                    ELSE imgLoop(matches, j + 1,
                                 [acc EXCEPT !.log = @ \o <<LogLine("imgfail", at)>>],
                                 ev, at)
                    : d \in downloadImage(src, acc.static, ev)}

imgToLocal(content, dir, ev, at) ==
    imgLoop(Matches(content, 1), 1,
            [content |-> content, static |-> dir, log |-> <<>>, fetched |-> {}], ev, at)

----------------------------------------------------------------------------
(* Output files                                                             *)

\* makePath(s): spaces to dashes, lower case, other punctuation dropped, on
\* the titles of the inputs.
makePath(s) ==
    CASE s = "Hello World" -> "hello-world"
      [] OTHER -> s

\* The title and slug lines of templ: the slug line is rendered unless Title
\* and Slug are the same string.
templ(e) ==
    [ title |-> e.Title,
      slug |-> IF e.Title # e.Slug THEN <<e.Slug>> ELSE <<>> ]

\* writeEntry(entry, dir): the post file, from the loop's copy of the entry.
PostFile(at, e, children, comments, content, fetched) ==
    [ kind |-> "post", at |-> at, Draft |-> e.Draft, Children |-> children,
      Comments |-> comments, Content |-> content, Fetched |-> fetched,
      Header |-> templ(e) ]

\* writeComment(entry, dir): the comment file.
CommentFile(at, e) ==
    [ kind |-> "comment", at |-> at, Draft |-> e.Draft, Children |-> <<>>,
      Comments |-> <<>>, Content |-> e.Content, Fetched |-> {} ]

----------------------------------------------------------------------------
(* The run                                                                  *)

Exited == pc \in {"done", "fatal", "panic", "overflow"}

\* The state a pass's loop leaves when iteration i ends normally.
AfterPass(i, phase, following) ==
    IF i < Len(Entries)
    THEN [pc |-> phase, k |-> i + 1]
    ELSE [pc |-> following, k |-> 1]

\* A check for posts in place of the check for entries.
StartNeedsPost ==
    /\ pc = "start"
    /\ IF \A i \in 1..Len(Entries) : ~IsPost(Entries[i].Tags)
       THEN /\ pc' = "fatal"
            /\ log' = log \o <<LogLine("noentries", 0)>>
       ELSE /\ pc' = "map"
            /\ log' = log
    /\ k' = 1
    /\ UNCHANGED <<Entries, flags, env, postmap, count, drafts, files, static>>

\* main, lines 283-285: an export without entries is fatal.
Start ==
    /\ pc = "start"
    /\ IF Len(Entries) < 1
       THEN /\ pc' = "fatal"
            /\ log' = log \o <<LogLine("noentries", 0)>>
       ELSE /\ pc' = "map"
            /\ log' = log
    /\ k' = 1
    /\ UNCHANGED <<Entries, flags, env, postmap, count, drafts, files, static>>

\* The index postmap gives for a parent number, 0 when it has none.
Lookup(pm, parent) == IF parent \in DOMAIN pm THEN pm[parent] ELSE 0

\* A linking pass that takes a missing parent for a deleted one.
LinkKindLenient(E, pm, i) ==
    IF ~HasCommentTag(E[i].Tags) THEN "skip"
    ELSE IF ParentOf(E[i]) = 0 \/ Lookup(pm, ParentOf(E[i])) = 0 THEN "deleted"
    ELSE "link"

\* A linking pass that takes every record naming a parent for a comment.
LinkKindAnyTag(E, pm, i) ==
    IF ParentOf(E[i]) = 0 THEN "skip"
    ELSE IF Lookup(pm, ParentOf(E[i])) # 0 THEN "link"
    ELSE "panic"

\* main, lines 329-352: what one iteration of the linking pass does with
\* entry i: skip (no comment tag), deleted (parent 0), link, or panic.
LinkKind(E, pm, i) ==
    IF ~HasCommentTag(E[i].Tags) THEN "skip"
    ELSE IF ParentOf(E[i]) = 0 THEN "deleted"
    ELSE IF Lookup(pm, ParentOf(E[i])) # 0 THEN "link"
    ELSE "panic"

\* An assignment of the child in place of the append.
AttachOnly(E, parent, child) == [E EXCEPT ![parent].Children = <<child>>]

\* exp.Entries[i].Children = append(exp.Entries[i].Children, k)
Attach(E, parent, child) == [E EXCEPT ![parent].Children = Append(@, child)]

\* A single pass: each record is linked as soon as it is mapped.
MapAndLinkStep ==
    /\ pc = "map"
    /\ LET r == MapEntry(Entries[k], postmap, k)
           E1 == [Entries EXCEPT ![k] = r.entry]
           n == AfterPass(k, "map", IF flags.Comments THEN "link" ELSE "write")
       IN  /\ Entries' = IF flags.Comments /\ LinkKind(E1, r.postmap, k) = "link"
                         THEN Attach(E1, Lookup(r.postmap, ParentOf(E1[k])), k)
                         ELSE E1
           /\ postmap' = r.postmap
           /\ log' = log \o r.log
           /\ pc' = n.pc
           /\ k' = n.k
    /\ UNCHANGED <<flags, env, count, drafts, files, static>>

\* main, lines 290-325: one iteration of the pass that builds postmap.
MapStep ==
    /\ pc = "map"
    /\ LET r == MapEntry(Entries[k], postmap, k)
           n == AfterPass(k, "map", IF flags.Comments THEN "link" ELSE "write")
       IN  /\ Entries' = [Entries EXCEPT ![k] = r.entry]
           /\ postmap' = r.postmap
           /\ log' = log \o r.log
           /\ pc' = n.pc
           /\ k' = n.k
    /\ UNCHANGED <<flags, env, count, drafts, files, static>>

\* main, lines 328-354: one iteration of the pass that links comments.
LinkStep ==
    /\ pc = "link"
    /\ LET what == LinkKind(Entries, postmap, k)
           n == AfterPass(k, "link", "write")
       IN  CASE what = "skip" ->
                  /\ pc' = n.pc /\ k' = n.k
                  /\ UNCHANGED <<Entries, files, log>>
             [] what = "deleted" ->
                  /\ log' = log \o <<LogLine("deleted", k)>>
                  /\ pc' = n.pc /\ k' = n.k
                  /\ UNCHANGED <<Entries, files>>
             [] what = "panic" ->
                  /\ pc' = "panic"
                  /\ log' = log \o <<LogLine("panic", k - 1)>>
                  /\ UNCHANGED <<Entries, files, k>>
             [] what = "link" ->
                  /\ Entries' = Attach(Entries, Lookup(postmap, ParentOf(Entries[k])), k)
                  /\ \E ok \in Answers(env, "writeComment") :
                        IF ok
                        THEN /\ files' = Append(files, CommentFile(k, Entries[k]))
                             /\ log' = log
                        ELSE /\ files' = files
                             /\ log' = log \o <<LogLine("commenterr", k)>>
                  /\ pc' = n.pc /\ k' = n.k
    /\ UNCHANGED <<flags, env, postmap, count, drafts, static>>

\* Entries with the Children lists replaced by ch.
WithChildren(E, ch) == [i \in 1..Len(E) |-> [E[i] EXCEPT !.Children = ch[i]]]

Ending(exit, lines) == [exit |-> exit, log |-> lines]

\* A failed write that is logged, the run going on.
ExitLoggingWriteError(converted, written, i) ==
    IF ~converted THEN Ending("fatal", <<LogLine("converr", i)>>)
    ELSE IF ~written THEN Ending("ok", <<LogLine("writefail", i)>>)
    ELSE Ending("ok", <<>>)

\* A failed conversion that is logged, the run going on.
ExitLoggingConversion(converted, written, i) ==
    IF ~written THEN Ending("fatal", <<LogLine("writefail", i)>>)
    ELSE IF ~converted THEN Ending("ok", <<LogLine("converr", i)>>)
    ELSE Ending("ok", <<>>)

\* main, lines 399-410: how the iteration on post i ends given whether the
\* conversion and the write succeeded. Either failure is log.Fatal; a failed
\* conversion exits before the write is tried.
ExitOf(converted, written, i) ==
    IF ~converted THEN Ending("fatal", <<LogLine("converr", i)>>)
    ELSE IF ~written THEN Ending("fatal", <<LogLine("writefail", i)>>)
    ELSE Ending("ok", <<>>)

\* main, lines 372-410 for the post at index i: the outcomes, each
\* [exit, Entries, static, log, file]. exit is "ok" (the file was written),
\* "fatal" (log.Fatal) or "overflow" (treeSort recursed without end).
WritePost(E, i, fl, ev, dir) ==
    LET hello == <<LogLine("importing", i)>>
    IN  IF Diverges(E, i)
        THEN {[ exit |-> "overflow", Entries |-> E, static |-> dir,
                log |-> hello \o <<LogLine("overflow", i)>>, file |-> <<>> ]}
        ELSE UNION { UNION {
               LET list == treeSort(ch, i)
                   E1 == WithChildren(E, ch)
                   comments == CommentIDs(E1, list, 1)
               IN  { LET how == ExitOf(converted, written, i)
                         content == ReplaceNbsp(IF fl.ToMd /\ converted
                                                THEN ConvertString(loc.content)
                                                ELSE loc.content)
                     IN  [ exit |-> how.exit,
                           Entries |-> E1, static |-> loc.static,
                           log |-> hello \o loc.log \o how.log,
                           file |-> IF how.exit = "ok"
                                    THEN <<PostFile(i, E[i], list, comments, content,
                                                    loc.fetched)>>
                                    ELSE <<>> ]
                     : converted \in (IF fl.ToMd THEN Answers(ev, "convert") ELSE {TRUE}),
                       written \in Answers(ev, "writeEntry") }
               : loc \in (IF fl.Static
                          THEN imgToLocal(E[i].Content, dir, ev, i)
                          ELSE {[ content |-> E[i].Content, static |-> dir,
                                  log |-> <<>>, fetched |-> {} ]}) }
               : ch \in SortedChildren(E, i) }

\* main, lines 358-418: one iteration of the pass that writes the posts; the
\* last one is followed by the report of the two counts.
WriteStep ==
    /\ pc = "write"
    /\ IF ~IsPost(Entries[k].Tags)
       THEN /\ UNCHANGED <<Entries, static, files, count, drafts>>
            /\ pc' = AfterPass(k, "write", "done").pc
            /\ k' = AfterPass(k, "write", "done").k
            /\ log' = IF k < Len(Entries) THEN log
                      ELSE log \o <<LogLine("wrote", count), LogLine("wrotedrafts", drafts)>>
       ELSE \E o \in WritePost(Entries, k, flags, env, static) :
            /\ Entries' = o.Entries
            /\ static' = o.static
            /\ files' = files \o o.file
            /\ IF o.exit = "ok"
               THEN /\ count' = IF Entries[k].Draft THEN count ELSE count + 1
                    /\ drafts' = IF Entries[k].Draft THEN drafts + 1 ELSE drafts
                    /\ pc' = AfterPass(k, "write", "done").pc
                    /\ k' = AfterPass(k, "write", "done").k
                    /\ log' = IF k < Len(Entries) THEN log \o o.log
                              ELSE log \o o.log \o <<LogLine("wrote", count'),
                                                    LogLine("wrotedrafts", drafts')>>
               ELSE /\ pc' = o.exit
                    /\ log' = log \o o.log
                    /\ UNCHANGED <<count, drafts, k>>
    /\ UNCHANGED <<flags, env, postmap>>

Next == Start \/ MapStep \/ LinkStep \/ WriteStep

----------------------------------------------------------------------------
(* Inputs                                                                   *)

\* The number the ID of the record at input position i spells: IDs name
\* records, so distinct records spell distinct numbers.
NumID(i) == 10 * i

\* An input record by what the run reads of it: its tags, the form of its ID
\* ("own": "...post-<NumID>", "bad": "...post-<no number>", "bare": the number
\* alone, "none": neither marker nor number), where it names its parent
\* ("source": in-reply-to, "related": a related link, "none"), and the number
\* it names there.
Shape(tags, id, published, draft, content, via, target) ==
    [ tags |-> tags, id |-> id, published |-> published, draft |-> draft,
      content |-> content, via |-> via, target |-> target,
      title |-> "hello", slug |-> "" ]

\* The shape with another title, and with a "replies" link whose base name
\* without extension is slug ("": no such link).
Titled(s, title, slug) == [s EXCEPT !.title = title, !.slug = slug]

Build(s, i) ==
    NewEntry(CASE s.id = "own" -> IDString(TRUE, NumID(i))
               [] s.id = "bad" -> IDString(TRUE, NaN)
               [] s.id = "bare" -> IDString(FALSE, NumID(i))
               [] OTHER -> IDString(FALSE, NaN),
             s.title, s.published, s.draft, s.content, s.tags,
             IF s.via = "source" THEN s.target ELSE NaN,
             (IF s.via = "related" THEN <<Link("Related", s.target, "")>> ELSE <<>>)
             \o (IF s.slug # "" THEN <<Link("replies", NaN, s.slug)>> ELSE <<>>))

Plain == <<Text("hello")>>

Flags(comments, localize, tomd) ==
    [Comments |-> comments, Static |-> localize, ToMd |-> tomd]

\* The sequences of shapes for the records i..n of an export of n records.
RECURSIVE ShapesFrom(_, _, _)
ShapesFrom(Shapes(_, _), i, n) ==
    IF i > n THEN {<<>>}
    ELSE {<<s>> \o rest : s \in Shapes(i, n), rest \in ShapesFrom(Shapes, i + 1, n)}

\* The state main starts from, for an export of n records of the given shapes.
InitWith(sizes, Shapes(_, _), flagSet, envSet) ==
    /\ \E n \in sizes : \E sh \in ShapesFrom(Shapes, 1, n) :
          Entries = [i \in 1..n |-> Build(sh[i], i)]
    /\ flags \in flagSet
    /\ env \in envSet
    /\ postmap = EmptyMap
    /\ pc = "start"
    /\ k = 1
    /\ count = 0
    /\ drafts = 0
    /\ files = <<>>
    /\ static = {}
    /\ log = <<>>

Faults == {"download", "convert", "writeEntry", "writeComment"}

\* Numbers a comment can name as its parent in an export of n records: the
\* ID of each record, and one that no record has.
Targets(n) == {NumID(i) : i \in 1..(n + 1)}

\* Comments naming any parent, or none, in the in-reply-to source or in a
\* related link.
Comments(tags, times, n) ==
    {Shape(tags, "own", t, FALSE, Plain, "none", 0) : t \in times}
    \cup {Shape(tags, "own", t, FALSE, Plain, via, target) :
            t \in times, via \in {"source", "related"}, target \in Targets(n)}

\* Exports for the linking passes: posts (with a parsable ID or not), a
\* template record, and comments.
LinkShapes(i, n) ==
    {Shape(<<TL, TP>>, id, 1, FALSE, Plain, "none", 0) : id \in {"own", "bad"}}
    \cup {Shape(<<TT>>, "none", 1, FALSE, Plain, "none", 0)}
    \cup Comments(<<TC>>, {1}, n)

Init ==
    InitWith(0..MaxEntries, LinkShapes,
             {Flags(c, FALSE, FALSE) : c \in BOOLEAN}, {{}})

Spec == Init /\ [][Next]_vars

\* Exports for the comment tree: a post followed by comments, each replying
\* to any record of the export, published at any of the timestamps.
TreeShapes(i, n) ==
    IF i = 1
    THEN {Shape(<<TP>>, "own", 1, FALSE, Plain, "none", 0)}
    ELSE {Shape(<<TC>>, "own", t, FALSE, Plain, "source", NumID(p)) :
            t \in 1..MaxTime, p \in 1..n}

InitTree == InitWith(1..MaxTree, TreeShapes, {Flags(TRUE, FALSE, FALSE)}, {{}})

SpecTree == InitTree /\ [][Next]_vars

\* Exports for the roles: every sequence of kind tags of length at most two
\* (and none), the records with a comment tag replying to the first record
\* or to none.
KindTags == {<<>>, <<TP>>, <<TC>>, <<TT>>, <<TT, TP>>, <<TT, TC>>, <<TP, TC>>, <<TC, TP>>}

RoleShapes(i, n) ==
    {Shape(tags, "own", 1, FALSE, Plain, "none", 0) : tags \in KindTags}
    \cup {Shape(tags, "own", 1, FALSE, Plain, "source", NumID(1)) :
            tags \in {t \in KindTags : HasCommentTag(t)}}

InitRoles ==
    InitWith(1..MaxEntries, RoleShapes, {Flags(c, FALSE, FALSE) : c \in BOOLEAN}, {{}})

SpecRoles == InitRoles /\ [][Next]_vars

\* Exports for the failures of the environment: posts and drafts, with an
\* image or without, comments, and every call that can fail failing or not.
Photo == Url("host1", "photo.jpg")

FaultShapes(i, n) ==
    {Shape(<<TP>>, "own", 1, d, c, "none", 0) : d \in BOOLEAN, c \in {Plain, <<Img(Photo)>>}}
    \cup {Shape(<<TP>>, "bad", 1, FALSE, Plain, "none", 0)}
    \cup {Shape(<<TC>>, "own", 1, FALSE, Plain, "none", 0)}
    \cup {Shape(<<TC>>, "own", 1, FALSE, Plain, "source", NumID(p)) : p \in 1..n}

InitFault ==
    InitWith(1..MaxEntries, FaultShapes,
             {Flags(TRUE, s, m) : s, m \in BOOLEAN}, {Faults})

SpecFault == InitFault /\ [][Next]_vars

\* Exports for the images: one post whose content is any sequence of image
\* tags and links, to two URLs of the same base name and to a local path.
Photo2 == Url("host2", "photo.jpg")
LocalPic == Ref(FALSE, "/img", FileName(0, "local.jpg"))

Tokens == {Img(Photo), Img(Photo2), Img(LocalPic), Href(Photo)}

RECURSIVE Contents(_)
Contents(n) ==
    IF n = 0 THEN {<<>>}
    ELSE Contents(n - 1) \cup
         {<<t>> \o c : t \in Tokens, c \in {x \in Contents(n - 1) : Len(x) = n - 1}}

ImgShapes(i, n) ==
    {Shape(<<TP>>, "own", 1, FALSE, c, "none", 0) : c \in Contents(MaxContent)}

InitImg == InitWith({1}, ImgShapes, {Flags(TRUE, TRUE, m) : m \in BOOLEAN}, {{"download"}})

SpecImg == InitImg /\ [][Next]_vars

\* Exports for the header: posts of any title, with a "replies" link of any
\* base name or without one.
Titles == {"", "hello", "Hello World"}
Slugs == {"", "hello", "hello-world", "other"}

SlugShapes(i, n) ==
    {Titled(Shape(<<TP>>, "own", 1, FALSE, Plain, "none", 0), t, g) :
        t \in Titles, g \in Slugs}

InitSlug ==
    InitWith(1..MaxEntries, SlugShapes, {Flags(TRUE, FALSE, FALSE)}, {{}})

SpecSlug == InitSlug /\ [][Next]_vars

\* Exports for the reply cycles: posts, comments and records tagged as both,
\* each naming any record of the export as its parent, itself included (a
\* post may also name none).
CycleShapes(i, n) ==
    {Shape(<<TP>>, "own", 1, FALSE, Plain, "none", 0)}
    \cup {Shape(tags, "own", 1, FALSE, Plain, "source", NumID(p)) :
            tags \in {<<TP>>, <<TC>>, <<TP, TC>>}, p \in 1..n}

InitCycle == InitWith(1..MaxEntries, CycleShapes, {Flags(TRUE, FALSE, FALSE)}, {{}})

SpecCycle == InitCycle /\ [][Next]_vars

----------------------------------------------------------------------------
(* Vocabulary of the properties                                             *)

Records == 1..Len(Entries)

Count(x, s) == Cardinality({j \in 1..Len(s) : s[j] = x})

Last(s) == s[Len(s)]

Logged(ev) == \E j \in 1..Len(log) : log[j].ev = ev

PostFiles == {j \in 1..Len(files) : files[j].kind = "post"}

\* The record a comment replies to: the record postmap gives for the parent
\* number the comment names (0: it names none, or none that is mapped).
RepliedTo(c) ==
    IF HasCommentTag(Entries[c].Tags) /\ ParentOf(Entries[c]) # 0
    THEN Lookup(postmap, ParentOf(Entries[c]))
    ELSE 0

\* c replies to p, directly or through at most n comments.
RECURSIVE ReplyChain(_, _, _)
ReplyChain(c, p, n) ==
    /\ n > 0
    /\ RepliedTo(c) # 0
    /\ \/ RepliedTo(c) = p
       \/ ReplyChain(RepliedTo(c), p, n - 1)

RepliesTo(c, p) == ReplyChain(c, p, Len(Entries))

\* The comment names a parent number that postmap does not hold.
Dangling(c) ==
    /\ HasCommentTag(Entries[c].Tags)
    /\ ParentOf(Entries[c]) # 0
    /\ ParentOf(Entries[c]) \notin DOMAIN postmap

MapBuilt == pc \notin {"start", "map"}

----------------------------------------------------------------------------
(* C1. With comment import enabled, the comments list of every written post *)
(* holds the numeric ID of each comment that replies to the post, directly  *)
(* or through other comments, exactly once, and nothing else.               *)

C1_EveryReplyListedOnce ==
    flags.Comments =>
        \A j \in PostFiles :
            LET replies == {c \in Records : /\ RepliesTo(c, files[j].at)
                                            /\ ParseOk(Entries[c].ID)}
            IN  /\ \A c \in replies :
                      Count(ParseVal(Entries[c].ID), files[j].Comments) = 1
                /\ Len(files[j].Comments) = Cardinality(replies)

\* A written post lists a comment that replies to another comment of it.
C1_Witness ==
    /\ flags.Comments
    /\ \E j \in PostFiles : \E c \in Records :
          /\ RepliesTo(c, files[j].at)
          /\ RepliedTo(c) # files[j].at
          /\ Count(ParseVal(Entries[c].ID), files[j].Comments) = 1

----------------------------------------------------------------------------
(* C4. With comment import enabled, no Children list changes while postmap  *)
(* is being built, postmap holds every record by the time the first child   *)
(* is appended, and so every comment that names a mapped parent is attached *)
(* to it, whether the parent comes earlier or later in the input.           *)

SomeChild == \E i \in Records : Entries[i].Children # <<>>

MapComplete ==
    \A i \in Records :
        ~IsTemplate(Entries[i].Tags) =>
            /\ ~HasMarker(Entries[i].ID)
            /\ ParseOk(Entries[i].ID) => Lookup(postmap, ParseVal(Entries[i].ID)) = i

Attached(c) == \E p \in Records : RepliedTo(c) = p /\ c \in RangeOf(Entries[p].Children)

C4_LinkAfterFullMap ==
    flags.Comments =>
        /\ pc \in {"start", "map"} => ~SomeChild
        /\ SomeChild => MapComplete
        /\ \A c \in Records :
              ( /\ RepliedTo(c) # 0
                /\ \/ pc \in {"write", "done"}
                   \/ pc \in {"link", "panic"} /\ c < k )
              => Attached(c)

\* A comment is attached to a parent that comes later in the input.
C4_Witness ==
    /\ flags.Comments
    /\ \E c \in Records : Attached(c) /\ RepliedTo(c) > c

----------------------------------------------------------------------------
(* C5. With comment import enabled, the run panics at the first comment     *)
(* that names a non-zero parent number absent from postmap, with a message  *)
(* naming the comment's input position; no comment after it is linked or    *)
(* written, and no post is written.                                         *)

C5_DanglingParentAborts ==
    (flags.Comments /\ MapBuilt) =>
        /\ \A c \in Records : Dangling(c) => pc \in {"link", "panic"} /\ k <= c
        /\ pc = "panic" =>
              /\ Dangling(k)
              /\ Last(log) = LogLine("panic", k - 1)
              /\ PostFiles = {}
              /\ \A j \in 1..Len(files) : files[j].at < k
              /\ \A i \in Records : \A c \in RangeOf(Entries[i].Children) : c < k

\* The run has panicked after writing a comment and before a comment that
\* names a mapped parent.
C5_Witness ==
    /\ pc = "panic"
    /\ files # <<>>
    /\ \E c \in Records : c > k /\ RepliedTo(c) # 0

----------------------------------------------------------------------------
(* C9. Claimed: an input without any post record ends in a fatal error      *)
(* instead of completing with a report of 0 posts and 0 drafts.             *)

NoPosts == \A i \in Records : ~IsPost(Entries[i].Tags)

C9_NoPostIsFatal == NoPosts => pc # "done"

(* C9, amended. Only an input without any record ends in the fatal error    *)
(* "No blog entries found!"; a run over a non-empty input without a post    *)
(* record that reaches the end reports 0 published posts and 0 drafts.      *)

C9_OnlyEmptyInputIsFatal ==
    /\ Len(Entries) = 0 => pc \in {"start", "fatal"}
    /\ pc = "fatal" => Len(Entries) = 0 /\ log = <<LogLine("noentries", 0)>>
    /\ (pc = "done" /\ NoPosts) =>
          /\ PostFiles = {}
          /\ Len(log) >= 2
          /\ log[Len(log) - 1] = LogLine("wrote", 0)
          /\ Last(log) = LogLine("wrotedrafts", 0)

\* A run over records none of which is a post has completed.
C9_Witness == pc = "done" /\ NoPosts /\ Len(Entries) > 0

----------------------------------------------------------------------------
(* C2. Claimed: in the flattened order of a post, siblings published at the *)
(* same time keep their input order (Children are appended in input order,  *)
(* so: the one earlier in the input comes first).                           *)

C2_TiedSiblingsKeepInputOrder ==
    \A j \in PostFiles :
        LET list == files[j].Children
        IN  \A a, b \in 1..Len(list) :
                ( /\ a < b
                  /\ RepliedTo(list[a]) = RepliedTo(list[b])
                  /\ Entries[list[a]].Published = Entries[list[b]].Published )
                => list[a] < list[b]

----------------------------------------------------------------------------
(* C3. The flattened list of a written post is a depth-first pre-order of   *)
(* its comment tree: it holds each comment of the tree once, a comment's    *)
(* parent is the post or comes before it, the replies to a comment (direct  *)
(* and indirect) fill the places right after it, and comments with the same *)
(* parent are in ascending published order.                                 *)

C3_PreOrderOfSortedTree ==
    \A j \in PostFiles :
        LET list == files[j].Children
            root == files[j].at
            at == 1..Len(list)
        IN  /\ RangeOf(list) = {c \in Records : RepliesTo(c, root)}
            /\ \A a, b \in at : list[a] = list[b] => a = b
            /\ \A a \in at :
                  \/ RepliedTo(list[a]) = root
                  \/ \E b \in 1..(a - 1) : RepliedTo(list[a]) = list[b]
            /\ \A a \in at :
                  LET below == {b \in at : RepliesTo(list[b], list[a])}
                  IN  below = (a + 1)..(a + Cardinality(below))
            /\ \A a, b \in at :
                  (a < b /\ RepliedTo(list[a]) = RepliedTo(list[b]))
                  => ~(Entries[list[b]].Published < Entries[list[a]].Published)

\* A written post whose list holds a comment, then a reply to it, then a
\* later sibling of it that comes before it in the input.
C3_Witness ==
    \E j \in PostFiles :
        LET list == files[j].Children
        IN  \E a, b, c \in 1..Len(list) :
                /\ a < b /\ b < c
                /\ RepliedTo(list[b]) = list[a]
                /\ RepliedTo(list[c]) = RepliedTo(list[a])
                /\ Entries[list[a]].Published < Entries[list[c]].Published
                /\ list[c] < list[a]

----------------------------------------------------------------------------
(* C6. Claimed: every record is treated under one role in all passes. What  *)
(* the passes did to a record shows in the state: pass 1 cut the ID of the  *)
(* records it took for posts or comments, pass 2 attached or skipped the    *)
(* records it took for comments, pass 3 imported the records it took for    *)
(* posts. (In the exports of SpecRoles every ID has the "post-" marker.)    *)

TakenAsEntry(i) == ~HasMarker(Entries[i].ID)

TakenAsComment(i) ==
    \/ \E p \in Records : i \in RangeOf(Entries[p].Children)
    \/ \E j \in 1..Len(log) : log[j] \in {LogLine("deleted", i), LogLine("panic", i - 1)}

TakenAsPost(i) == \E j \in 1..Len(log) : log[j] = LogLine("importing", i)

C6_OneRolePerRecord ==
    MapBuilt =>
        \A i \in Records :
            /\ TakenAsPost(i) => TakenAsEntry(i) /\ ~TakenAsComment(i)
            /\ TakenAsComment(i) => TakenAsEntry(i)
            /\ (pc = "done" /\ flags.Comments /\ TakenAsEntry(i))
               => TakenAsPost(i) \/ TakenAsComment(i)

----------------------------------------------------------------------------
(* C7. Claimed: after a failed write of a post file or of a comment file no *)
(* further record is written and no counts are reported.                    *)

----------------------------------------------------------------------------
(* C8. Claimed: an unparsable ID, an orphaned comment, a failed image       *)
(* download or a failed conversion never aborts the batch.                  *)

C8_RecoverableNeverAborts ==
    pc = "fatal" => Last(log).ev \notin {"cantparse", "deleted", "imgfail", "converr"}

(* C8, amended. An unparsable numeric ID, an orphaned comment or a failed   *)
(* image download is logged and does not abort the batch: a run that is not *)
(* aborted otherwise writes every post record and reports the counts. A     *)
(* failed content conversion does abort it: log.Fatal ends the run at that  *)
(* post, later posts are not written and no counts are reported.            *)

Written(draft) == Cardinality({j \in PostFiles : files[j].Draft = draft})

C8_OnlyConversionFailureAborts ==
    /\ pc = "fatal" => Last(log).ev \in {"converr", "writefail"}
    /\ pc = "panic" => Last(log).ev = "panic"
    /\ Logged("converr") =>
          /\ pc = "fatal"
          /\ Last(log).ev = "converr"
          /\ ~Logged("wrote")
          /\ \A j \in PostFiles : files[j].at < Last(log).at
    /\ pc = "done" =>
          /\ \A i \in Records :
                IsPost(Entries[i].Tags) => \E j \in PostFiles : files[j].at = i
          /\ log[Len(log) - 1] = LogLine("wrote", Written(FALSE))
          /\ Last(log) = LogLine("wrotedrafts", Written(TRUE))

\* A run has completed although an ID did not parse, a comment was orphaned
\* and an image download failed.
C8_Witness ==
    /\ pc = "done"
    /\ Logged("cantparse") /\ Logged("deleted") /\ Logged("imgfail")
    /\ PostFiles # {}

----------------------------------------------------------------------------
(* C10. Claimed: the content imgToLocal returns holds no occurrence of a    *)
(* reference whose download succeeded.                                      *)

C10_NoFetchedReferenceRemains ==
    \A j \in PostFiles :
        \A u \in files[j].Fetched :
            \A t \in 1..Len(files[j].Content) : files[j].Content[t].ref # u

----------------------------------------------------------------------------
(* C11. Claimed: no successful download overwrites a file that an earlier   *)
(* download of the run saved. Every reference of a written post that was    *)
(* rewritten to a local path then names a file of the static directory that *)
(* still holds the bytes fetched from the reference it replaced.            *)

C11_SavedFilesAreKept ==
    \A j \in PostFiles :
        LET before == Entries[files[j].at].Content
            after == files[j].Content
        IN  \A t \in 1..Len(after) :
                (before[t].ref.http /\ ~after[t].ref.http)
                => Saved(after[t].ref.name, before[t].ref) \in static

----------------------------------------------------------------------------
(* C12. Claimed: the header of a written post has a slug line only when the *)
(* record has a non-empty slug that differs from the title-derived name.    *)

C12_SlugLineOnlyWhenDifferent ==
    \A j \in PostFiles :
        LET e == Entries[files[j].at]
        IN  files[j].Header.slug # <<>>
            => (e.Slug # "" /\ e.Slug # makePath(e.Title))

----------------------------------------------------------------------------
(* C13. When no record carries both the post kind tag and the comment kind  *)
(* tag, treeSort terminates on every post, whatever cycles the comments'    *)
(* reply targets form: every record index occurs at most once over all      *)
(* Children lists, no post occurs in any, no cycle of Children is reachable *)
(* from a post, and the run never ends in the endless recursion.            *)

NoPostIsComment ==
    \A i \in Records : ~(IsPost(Entries[i].Tags) /\ HasCommentTag(Entries[i].Tags))

Parents(c) == {p \in Records : c \in RangeOf(Entries[p].Children)}

C13_TreeSortTerminates ==
    NoPostIsComment =>
        /\ pc # "overflow"
        /\ \A c \in Records :
              /\ Cardinality(Parents(c)) <= 1
              /\ \A p \in Records : Count(c, Entries[p].Children) <= 1
        /\ \A i \in Records :
              IsPost(Entries[i].Tags) => Parents(i) = {} /\ ~Diverges(Entries, i)

\* A post with comments has been written in a run whose comments form a
\* cycle of replies among themselves.
C13_Witness ==
    /\ NoPostIsComment
    /\ pc = "done"
    /\ \E c \in Records : c \in Descendants(Entries, c)
    /\ \E j \in PostFiles : files[j].Children # <<>>

====
